---- MODULE Spec2Model ----
(***************************************************************************)
(* PolySniper Pro (src/sniper.py): one Streamlit session of the dashboard. *)
(*                                                                         *)
(* The session state is st.session_state['audits'] (the audit cache) and   *)
(* st.session_state['last_results'] (the last scan).  The two handlers are *)
(* the 'RUN DEEP SCAN' button (fetch_markets_advanced, then date math,     *)
(* filter, rank, save) and the per-row 'Audit Risk' button                 *)
(* (analyze_risk_llm, then st.rerun).  Each HTTP request of a handler is   *)
(* one step: the environment answers it with any response of a small set.  *)
(* The script is single-threaded: while a handler runs (pc # "idle") no    *)
(* other handler starts.                                                   *)
(*                                                                         *)
(* Units: money in dollars (integers), outcome prices in cents, time in    *)
(* hundredths of a day (so days_left_max = 5.0 is 500 and the clip floor   *)
(* 0.1 is 10).                                                             *)
(*                                                                         *)
(* The st.cache_data(ttl=120) decorator of fetch_markets_advanced is not   *)
(* modelled: the model describes executions of the function body (cache    *)
(* misses).  A hit issues no request and returns a copy of an earlier      *)
(* return value, which the environment's choice of responses covers.       *)
(***************************************************************************)
EXTENDS Integers, Sequences, FiniteSets, TLC

VARIABLES
    audits,        \* st.session_state['audits']: a dict slug -> parsed result
    last_results,  \* st.session_state['last_results'] (has = key present)
    pc,            \* "idle" | "fetch" (in the page loop) | "audit" (in the model loop)
    handler,       \* the handler running now, or the last one that ran
    outcome,       \* how that handler ended ("running" until it has)
    widgets,       \* sidebar values read by the running / last scan
    page,          \* fetch_markets_advanced: loop variable `page`
    all_items,     \* fetch_markets_advanced: `all_items`, in the end its result
    now,           \* scan handler: `now` of line 217 (0 until it is read)
    slug,          \* analyze_risk_llm: its `slug` argument
    mi,            \* analyze_risk_llm: index of the next model to try
    ret,           \* analyze_risk_llm: its return value (NoReturn while running)
    gets,          \* the GET requests issued by the running / last scan, in order
    got,           \* the response to the last request of `gets`
    posts,         \* the POST requests issued by the running / last audit, in order
    resp,          \* the response to the last request of `posts`
    audits_before, \* the audit cache as it was when analyze_risk_llm was called
    api_error      \* whether the running / last scan showed st.error

vars ==
    <<audits, last_results, pc, handler, outcome, widgets, page, all_items,
      now, slug, mi, ret, gets, got, posts, resp, audits_before, api_error>>

-----------------------------------------------------------------------------
(* Bounds of the model *)

\* scan_depth ranges over 1..MaxPages (the slider allows 1..10)
MaxPages == 2

\* the model loop runs over the first NumModels entries of MODEL_FALLBACK_LIST
NumModels == 3

-----------------------------------------------------------------------------
(* Configuration *)

POLY_URL == "https://gamma-api.polymarket.com/events"

OPENROUTER_URL == "https://openrouter.ai/api/v1/chat/completions"

PAGE_LIMIT == 50

ALL_MODELS ==
    << "qwen/qwen3-coder:free",
       "google/gemini-2.0-flash-exp:free",
       "kwaipilot/kat-coder-pro:free",
       "deepseek/deepseek-r1-0528:free",
       "deepseek/deepseek-chat-v3-0324:free",
       "deepseek/deepseek-r1:free",
       "tngtech/deepseek-r1t2-chimera:free",
       "tngtech/deepseek-r1t-chimera:free",
       "microsoft/mai-ds-r1:free",
       "deepseek/deepseek-chat-v3.1:free",
       "openai/gpt-oss-20b:free",
       "mistralai/mistral-small-3.2-24b-instruct:free",
       "mistralai/mistral-nemo:free",
       "google/gemma-3-27b-it:free",
       "z-ai/glm-4.5-air:free",
       "deepseek/deepseek-r1-0528-qwen3-8b:free",
       "alibaba/tongyi-deepresearch-30b-a3b:free",
       "meituan/longcat-flash-chat:free",
       "nousresearch/hermes-3-llama-3.1-405b:free",
       "meta-llama/llama-3.3-70b-instruct:free",
       "meta-llama/llama-3.2-3b-instruct:free",
       "nvidia/nemotron-nano-12b-v2-vl:free",
       "nvidia/nemotron-nano-9b-v2:free",
       "meta-llama/llama-3.3-8b-instruct:free",
       "meta-llama/llama-4-maverick:free",
       "meta-llama/llama-4-scout:free",
       "mistralai/mistral-small-3.1-24b-instruct:free",
       "agentica-org/deepcoder-14b-preview:free",
       "qwen/qwen3-4b:free",
       "qwen/qwen3-30b-a3b:free",
       "qwen/qwen3-14b:free",
       "qwen/qwen3-235b-a22b:free",
       "moonshotai/kimi-k2:free",
       "mistralai/mistral-small-24b-instruct-2501:free",
       "mistralai/mistral-7b-instruct:free",
       "qwen/qwen-2.5-coder-32b-instruct:free",
       "qwen/qwen-2.5-72b-instruct:free",
       "google/gemma-3-4b-it:free",
       "google/gemma-3-12b-it:free",
       "qwen/qwen2.5-vl-32b-instruct:free",
       "google/gemma-3n-e2b-it:free",
       "google/gemma-3n-e4b-it:free",
       "deepseek/deepseek-r1-distill-llama-70b:free" >>

\* the list the loop iterates: a prefix of the source's list, in its order
MODEL_FALLBACK_LIST ==
    SubSeq(ALL_MODELS, 1, NumModels)

-----------------------------------------------------------------------------
(* Python values produced by json.loads on a model's answer.  A value is   *)
(* its type, the keys it has (a dict) or its length (a list), and the      *)
(* values under the three keys the program reads.                          *)

PyDict(keys, score, verdict, reasoning) ==
    [type |-> "dict", keys |-> keys, len |-> Cardinality(keys),
     risk_score |-> score, verdict |-> verdict, reasoning |-> reasoning]

PyList(n) ==
    [type |-> "list", keys |-> {}, len |-> n,
     risk_score |-> 0, verdict |-> "", reasoning |-> ""]

PyNone ==
    [type |-> "NoneType", keys |-> {}, len |-> 0,
     risk_score |-> 0, verdict |-> "", reasoning |-> ""]

AuditKeys == {"risk_score", "verdict", "reasoning"}

\* Python truthiness: None, {} and [] are falsy
Truthy(v) ==
    CASE v.type = "NoneType" -> FALSE
      [] v.type = "dict" -> v.keys # {}
      [] v.type = "list" -> v.len > 0
      [] OTHER -> TRUE

\* d.get(slug) on the audit cache: the entry, or None
DictGet(d, k) ==
    IF k \in DOMAIN d THEN d[k] ELSE PyNone

\* d[slug] = v
DictPut(d, k, v) ==
    [x \in DOMAIN d \cup {k} |-> IF x = k THEN v ELSE d[x]]

-----------------------------------------------------------------------------
(* The answers of the chat-completion endpoint.  A message content is a    *)
(* sequence of tokens: the two code-fence markers, a newline, and texts    *)
(* without a backtick (JSON documents and prose).                          *)

\* the marker of three backticks followed by json (a TLA+ string cannot hold a
\* backtick: <fence> stands for the three backticks)
FENCE_JSON == "<fence>json"

\* the marker of three backticks
FENCE == "<fence>"

NL == "\n"

J_SAFE == "{\"risk_score\": 3, \"verdict\": \"SAFE\", \"reasoning\": \"Clear rules.\"}"

J_RISKY == "{\"risk_score\": 9, \"verdict\": \"RISKY\", \"reasoning\": \"Vague source.\"}"

J_MAYBE == "{\"risk_score\": 11, \"verdict\": \"MAYBE\"}"

J_EMPTY == "{}"

J_LIST == "[1]"

J_NULL == "null"

PROSE == "I cannot audit this market."

\* json.loads on the texts above; any other text raises
JsonTable ==
    (J_SAFE :> PyDict(AuditKeys, 3, "SAFE", "Clear rules."))
    @@ (J_RISKY :> PyDict(AuditKeys, 9, "RISKY", "Vague source."))
    @@ (J_MAYBE :> PyDict({"risk_score", "verdict"}, 11, "MAYBE", ""))
    @@ (J_EMPTY :> PyDict({}, 0, "", ""))
    @@ (J_LIST :> PyList(1))
    @@ (J_NULL :> PyNone)

\* json.loads(content): surrounding whitespace is ignored; the rest must be
\* exactly one JSON document
json_loads(content) ==
    LET text == SelectSeq(content, LAMBDA tok : tok # NL)
    IN  IF Len(text) = 1 /\ text[1] \in DOMAIN JsonTable
        THEN [ok |-> TRUE, val |-> JsonTable[text[1]]]
        ELSE [ok |-> FALSE, val |-> PyNone]

\* sub in content, for sub one of the fence markers (the plain marker is a
\* substring of the json marker)
Contains(content, sub) ==
    \E i \in DOMAIN content :
        \/ content[i] = sub
        \/ sub = FENCE /\ content[i] = FENCE_JSON

RECURSIVE SplitFrom(_, _, _, _)
\* content.split(sep), from token i on, cur being the piece under construction
SplitFrom(content, sep, i, cur) ==
    IF i > Len(content) THEN << cur >>
    ELSE IF content[i] = sep
         THEN << cur >> \o SplitFrom(content, sep, i + 1, << >>)
    ELSE IF sep = FENCE /\ content[i] = FENCE_JSON
         THEN << cur >> \o SplitFrom(content, sep, i + 1, << "json" >>)
    ELSE SplitFrom(content, sep, i + 1, Append(cur, content[i]))

Split(content, sep) ==
    SplitFrom(content, sep, 1, << >>)

\* lines 132-133: "Clean JSON"
CleanJson(content) ==
    IF Contains(content, FENCE_JSON)
    THEN Split(Split(content, FENCE_JSON)[2], FENCE)[1]
    ELSE IF Contains(content, FENCE)
         THEN Split(Split(content, FENCE)[2], FENCE)[1]
         ELSE content

\* A response to requests.post: the call raised (timeout, connection error),
\* or it returned a status and a body; has_content says whether
\* r.json()['choices'][0]['message']['content'] exists.
LLMResponse(raised, status, has_content, content) ==
    [raised |-> raised, status |-> status, has_content |-> has_content,
     content |-> content]

R_TIMEOUT == LLMResponse(TRUE, 0, FALSE, << >>)

R_RATE_LIMITED == LLMResponse(FALSE, 429, FALSE, << >>)

R_NO_CHOICES == LLMResponse(FALSE, 200, FALSE, << >>)

R_PROSE == LLMResponse(FALSE, 200, TRUE, << PROSE >>)

R_SAFE == LLMResponse(FALSE, 200, TRUE, << J_SAFE >>)

R_RISKY_FENCED ==
    LLMResponse(FALSE, 200, TRUE, << FENCE_JSON, NL, J_RISKY, NL, FENCE >>)

R_SAFE_QUOTED ==
    LLMResponse(FALSE, 200, TRUE, << PROSE, NL, FENCE, NL, J_SAFE, NL, FENCE >>)

R_MAYBE == LLMResponse(FALSE, 200, TRUE, << FENCE_JSON, J_MAYBE, FENCE >>)

R_EMPTY_OBJECT == LLMResponse(FALSE, 200, TRUE, << J_EMPTY >>)

R_LIST == LLMResponse(FALSE, 200, TRUE, << J_LIST >>)

R_NULL == LLMResponse(FALSE, 200, TRUE, << J_NULL >>)

LLMResponses ==
    { R_TIMEOUT, R_RATE_LIMITED, R_NO_CHOICES, R_PROSE, R_SAFE, R_RISKY_FENCED,
      R_SAFE_QUOTED, R_MAYBE, R_EMPTY_OBJECT, R_LIST, R_NULL }

\* line 142: the value returned when the loop ends without a success
AI_UNAVAILABLE ==
    PyDict(AuditKeys, 0, "ERROR", "AI unavailable.")

\* while analyze_risk_llm runs it has returned nothing
NoReturn ==
    [type |-> "NoReturn", keys |-> {}, len |-> 0,
     risk_score |-> 0, verdict |-> "", reasoning |-> ""]

\* lines 122-140: one iteration of the model loop on response r.  ok: the
\* iteration reached `return result`; otherwise the loop goes on (a non-200
\* status falls through, an exception is swallowed by `except: continue`).
TryModel(r) ==
    IF r.raised THEN [ok |-> FALSE, val |-> PyNone]
    ELSE IF r.status # 200 THEN [ok |-> FALSE, val |-> PyNone]
    ELSE IF ~r.has_content THEN [ok |-> FALSE, val |-> PyNone]
    ELSE json_loads(CleanJson(r.content))

\* a loop that steps over an entry of the list
NextModel_SkipsOne(i) ==
    i + 2

\* line 121: the loop moves to the next entry of the list
NextModel(i) ==
    i + 1

\* line 137: the cache after a success
CacheOnSuccess(cache, s, result) ==
    DictPut(cache, s, result)

\* an exhausted call that stores what it returns, as a success does
CacheOnExhausted_StoresSentinel(cache, s) ==
    DictPut(cache, s, AI_UNAVAILABLE)

\* line 142: the cache when the list is exhausted (nothing is written)
CacheOnExhausted(cache, s) ==
    cache

-----------------------------------------------------------------------------
(* The answers of the events endpoint.  A market is the dict `m` of the    *)
(* flattening loop: `has` is the set of its keys; a key not in `has` reads *)
(* as the default of m.get.  outcomePrices is a JSON-encoded string        *)
(* (is_str, text) or a native list (items); a price is a number of cents   *)
(* or something float() rejects.                                           *)

Price(cents) ==
    [numeric |-> TRUE, cents |-> cents]

NotANumber ==
    [numeric |-> FALSE, cents |-> 0]

PricesString(text) ==
    [is_str |-> TRUE, text |-> text, items |-> << >>]

PricesList(items) ==
    [is_str |-> FALSE, text |-> "", items |-> items]

P_HALVES == "[\"0.5\", \"0.5\"]"

P_NONE == "[]"

P_WORDS == "[\"Yes\", \"No\"]"

P_GARBAGE == "N/A"

\* json.loads on the price strings above; any other string raises
PricesTable ==
    (P_HALVES :> << Price(50), Price(50) >>)
    @@ (P_NONE :> << >>)
    @@ (P_WORDS :> << NotANumber, NotANumber >>)

Market(has, question, volume, endDate, outcomePrices) ==
    [has |-> has, question |-> question, volume |-> volume,
     endDate |-> endDate, outcomePrices |-> outcomePrices]

MarketKeys == {"question", "volume", "endDate", "outcomePrices"}

M_WINNER ==
    Market(MarketKeys, "Who wins?", 10000, 500, PricesString(P_HALVES))

M_RUNOFF ==
    Market(MarketKeys, "Is there a runoff?", 9999, 300,
           PricesList(<< Price(60), Price(45) >>))

M_RATE_CUT ==
    Market(MarketKeys, "Rate cut today?", 20000, 1, PricesString(P_NONE))

M_EXPIRED ==
    Market(MarketKeys, "Rate cut last month?", 75000, -100,
           PricesList(<< Price(99), Price(1) >>))

M_BARE ==
    Market({"question"}, "Untitled", 0, 0, PricesList(<< >>))

M_GARBLED ==
    Market(MarketKeys, "Garbled prices?", 50000, 100, PricesString(P_GARBAGE))

M_WORDS ==
    Market(MarketKeys, "Worded prices?", 12000, 501, PricesString(P_WORDS))

Event(has_markets, title, slug_, markets) ==
    [has_markets |-> has_markets, title |-> title, slug |-> slug_,
     markets |-> markets]

EV_ELECTION == Event(TRUE, "Election", "election", << M_WINNER, M_RUNOFF >>)

EV_FED ==
    Event(TRUE, "Fed decision", "fed-decision", << M_RATE_CUT, M_EXPIRED >>)

EV_BARE == Event(TRUE, "Bare", "bare", << M_BARE >>)

EV_GARBLED == Event(TRUE, "Garbled", "garbled", << M_GARBLED, M_WORDS >>)

EV_WORDS == Event(TRUE, "Worded", "worded", << M_WORDS >>)

EV_NO_MARKETS == Event(FALSE, "Announced", "announced", << >>)

\* A response to requests.get: the call raised, or it returned; ok is r.ok,
\* has_json says whether r.json() returns (data) or raises.
PageResponse(raised, ok, has_json, data) ==
    [raised |-> raised, ok |-> ok, has_json |-> has_json, data |-> data]

G_CONNECTION_ERROR == PageResponse(TRUE, FALSE, FALSE, << >>)

G_SERVER_ERROR == PageResponse(FALSE, FALSE, FALSE, << >>)

G_NOT_JSON == PageResponse(FALSE, TRUE, FALSE, << >>)

G_EMPTY == PageResponse(FALSE, TRUE, TRUE, << >>)

G_ELECTION == PageResponse(FALSE, TRUE, TRUE, << EV_ELECTION >>)

G_FED == PageResponse(FALSE, TRUE, TRUE, << EV_NO_MARKETS, EV_FED >>)

G_BARE == PageResponse(FALSE, TRUE, TRUE, << EV_BARE >>)

G_GARBLED == PageResponse(FALSE, TRUE, TRUE, << EV_WORDS, EV_GARBLED, EV_FED >>)

PageResponses ==
    { G_CONNECTION_ERROR, G_SERVER_ERROR, G_NOT_JSON, G_EMPTY, G_ELECTION,
      G_FED, G_BARE, G_GARBLED }

\* selected_tag_id: None (no tag, "All Markets") or a tag id of fetch_tags
NoTag == "None"

TagIds == {NoTag, "100196"}

\* line 150
PageOffset(p) ==
    p * PAGE_LIMIT

\* lines 151-159: the query parameters of one page request
PageRequest(p, tag_id) ==
    [url |-> POLY_URL, closed |-> "false", limit |-> PAGE_LIMIT,
     offset |-> PageOffset(p), order |-> "id", ascending |-> "false",
     has_tag |-> tag_id # NoTag, tag_id |-> tag_id]

\* line 171: the price list of a market; ok = FALSE when json.loads raises
ParsePrices(m) ==
    IF "outcomePrices" \notin m.has THEN [ok |-> TRUE, prices |-> << >>]
    ELSE IF m.outcomePrices.is_str
         THEN IF m.outcomePrices.text \in DOMAIN PricesTable
              THEN [ok |-> TRUE, prices |-> PricesTable[m.outcomePrices.text]]
              ELSE [ok |-> FALSE, prices |-> << >>]
         ELSE [ok |-> TRUE, prices |-> m.outcomePrices.items]

RECURSIVE SumCents(_)
SumCents(prices) ==
    IF prices = << >> THEN 0
    ELSE Head(prices).cents + SumCents(Tail(prices))

\* lines 173-176: the price sum; a price float() rejects gives 0
PriceSumOf(prices) ==
    IF prices = << >> THEN 0
    ELSE IF \E i \in DOMAIN prices : ~prices[i].numeric THEN 0
    ELSE SumCents(prices)

\* m.get('endDate'): None when the key is missing
EndDateOf(m) ==
    IF "endDate" \in m.has
    THEN [known |-> TRUE, t |-> m.endDate]
    ELSE [known |-> FALSE, t |-> 0]

\* lines 178-187: the record appended for market m of event ev (Liquidity and
\* Outcomes, which nothing reads afterwards, are left out)
Record(ev, m, price_sum) ==
    [Event |-> ev.title,
     Question |-> m.question,
     Slug |-> ev.slug,
     Volume |-> IF "volume" \in m.has THEN m.volume ELSE 0,
     EndDate |-> EndDateOf(m),
     PriceSum |-> price_sum]

RECURSIVE FlattenMarkets(_, _, _, _)
\* lines 169-187: the loop over the markets of one event, from market i on.
\* json.loads of line 171 is outside the inner try: when it raises, the
\* exception leaves both loops (raised) and the market gets no record.
FlattenMarkets(ev, markets, i, items) ==
    IF i > Len(markets) THEN [items |-> items, raised |-> FALSE]
    ELSE LET parsed == ParsePrices(markets[i])
         IN  IF ~parsed.ok
             THEN [items |-> items, raised |-> TRUE]
             ELSE FlattenMarkets(ev, markets, i + 1,
                      Append(items,
                             Record(ev, markets[i], PriceSumOf(parsed.prices))))

RECURSIVE FlattenEvents(_, _, _)
\* lines 167-187: the loop over the events of one page, from event i on
FlattenEvents(data, i, items) ==
    IF i > Len(data) THEN [items |-> items, raised |-> FALSE]
    ELSE LET markets == IF data[i].has_markets THEN data[i].markets ELSE << >>
             out == FlattenMarkets(data[i], markets, 1, items)
         IN  IF out.raised THEN out
             ELSE FlattenEvents(data, i + 1, out.items)

\* a loop without the check for an empty payload
IsEmptyPayload_Never(data) ==
    FALSE

\* line 165: `if not data: break`
IsEmptyPayload(data) ==
    data = << >>

\* a fetch that drops what it had when a request raises
ItemsOnRequestError_Discards(items) ==
    << >>

\* lines 188-190: the accumulator after the request itself raised
ItemsOnRequestError(items) ==
    items

\* lines 161-190: the body of the page loop on response r.  stop: the loop
\* breaks; error: st.error is shown.
FetchBody(r, items) ==
    IF r.raised
    THEN [items |-> ItemsOnRequestError(items), stop |-> TRUE, error |-> TRUE]
    ELSE IF ~r.ok THEN [items |-> items, stop |-> TRUE, error |-> FALSE]
    ELSE IF ~r.has_json THEN [items |-> items, stop |-> TRUE, error |-> TRUE]
    ELSE IF IsEmptyPayload(r.data)
         THEN [items |-> items, stop |-> TRUE, error |-> FALSE]
    ELSE LET out == FlattenEvents(r.data, 1, items)
         IN  [items |-> out.items, stop |-> out.raised, error |-> out.raised]

-----------------------------------------------------------------------------
(* The scan handler after the fetch: date math, filter, rank, save.        *)

\* the sidebar: days_left_max (0.5 and 5.0 days), min_volume, scan_depth and
\* the selected tag
DaysLeftMaxChoices == {50, 500}

MinVolumeChoices == {5000, 10000}

Widgets ==
    [days_left_max : DaysLeftMaxChoices, min_volume : MinVolumeChoices,
     scan_depth : 1 .. MaxPages, selected_tag_id : TagIds]

NoWidgets ==
    [days_left_max |-> 0, min_volume |-> 0, scan_depth |-> 0,
     selected_tag_id |-> NoTag]

\* datetime.now(timezone.utc) as the scan reads it
Nows == {0, 1}

\* line 225: clip(lower=0.1), in hundredths of a day
CLIP_LOWER == 10

\* line 216: pd.to_datetime(...).dt.tz_convert(None) raises TypeError on a
\* column that holds no timezone-aware value at all (every EndDate is None)
DateMathRaises(items) ==
    \A i \in DOMAIN items : ~items[i].EndDate.known

\* line 218: NaN when EndDate is NaT
DaysLeftOf(endDate, t) ==
    IF endDate.known THEN [nan |-> FALSE, v |-> endDate.t - t]
    ELSE [nan |-> TRUE, v |-> 0]

WithDaysLeft(row, t) ==
    ("DaysLeft" :> DaysLeftOf(row.EndDate, t)) @@ row

\* a filter with an exclusive volume floor
Mask_ExclusiveVolume(row, days_left_max, min_volume) ==
    /\ ~row.DaysLeft.nan
    /\ row.DaysLeft.v > 0
    /\ row.DaysLeft.v <= days_left_max
    /\ row.Volume > min_volume

\* line 221 (a comparison with NaN is False)
Mask(row, days_left_max, min_volume) ==
    /\ ~row.DaysLeft.nan
    /\ row.DaysLeft.v > 0
    /\ row.DaysLeft.v <= days_left_max
    /\ row.Volume >= min_volume

\* line 225: Volume / DaysLeft.clip(lower=0.1), as a fraction (dollars per day)
ActionDensityOf(row) ==
    [num |-> row.Volume * 100,
     den |-> IF row.DaysLeft.v < CLIP_LOWER THEN CLIP_LOWER ELSE row.DaysLeft.v]

WithActionDensity(row) ==
    ("ActionDensity" :> ActionDensityOf(row)) @@ row

\* a.ActionDensity > b.ActionDensity
DenserThan(a, b) ==
    a.ActionDensity.num * b.ActionDensity.den
        > b.ActionDensity.num * a.ActionDensity.den

RECURSIVE InsertByDensity(_, _)
InsertByDensity(sorted, row) ==
    IF sorted = << >> THEN << row >>
    ELSE IF DenserThan(row, Head(sorted))
         THEN << row >> \o sorted
         ELSE << Head(sorted) >> \o InsertByDensity(Tail(sorted), row)

RECURSIVE SortByDensity(_, _, _)
\* line 226: sort_values(by='ActionDensity', ascending=False); rows of equal
\* density keep their order (pandas sorts these few rows by insertion)
SortByDensity(rows, i, sorted) ==
    IF i > Len(rows) THEN sorted
    ELSE SortByDensity(rows, i + 1, InsertByDensity(sorted, rows[i]))

\* lines 216-226: `filtered` for a non-empty df
FilterAndRank(items, w, t) ==
    LET dated == [i \in DOMAIN items |-> WithDaysLeft(items[i], t)]
        kept == SelectSeq(dated,
                    LAMBDA row : Mask(row, w.days_left_max, w.min_volume))
        scored == [i \in DOMAIN kept |-> WithActionDensity(kept[i])]
    IN  SortByDensity(scored, 1, << >>)

NoResults ==
    [has |-> FALSE, rows |-> << >>]

\* lines 214-230: what the handler does with the DataFrame of `items`
ScanEnd(items, w, t, saved) ==
    IF items = << >>
    THEN [outcome |-> "no_markets", last_results |-> saved, now |-> 0]
    ELSE IF DateMathRaises(items)
    THEN [outcome |-> "exception", last_results |-> saved, now |-> 0]
    ELSE [outcome |-> "saved",
          last_results |-> [has |-> TRUE, rows |-> FilterAndRank(items, w, t)],
          now |-> t]

-----------------------------------------------------------------------------
(* The render loop (lines 233-278): which 'Audit Risk' buttons a run of    *)
(* the script shows.  A row whose cached audit is truthy shows the audit   *)
(* (and raises AttributeError when the cached value has no .get); any      *)
(* other row shows a button keyed by its slug, and Streamlit raises on a   *)
(* key it has already seen in the run.  An exception ends the run.         *)

RECURSIVE RenderFrom(_, _, _, _)
RenderFrom(rows, cache, i, keys) ==
    IF i > Len(rows) THEN keys
    ELSE LET existing_audit == DictGet(cache, rows[i].Slug)
         IN  IF Truthy(existing_audit)
             THEN IF existing_audit.type = "dict"
                  THEN RenderFrom(rows, cache, i + 1, keys)
                  ELSE keys
             ELSE IF rows[i].Slug \in keys
                  THEN keys
                  ELSE RenderFrom(rows, cache, i + 1, keys \cup {rows[i].Slug})

\* the slugs whose button the page shows
Buttons(results, cache) ==
    IF results.has THEN RenderFrom(results.rows, cache, 1, {}) ELSE {}

-----------------------------------------------------------------------------
(* The session *)

NoGet == PageResponse(FALSE, FALSE, FALSE, << >>)

NoPost == LLMResponse(FALSE, 0, FALSE, << >>)

EmptyDict == [s \in {} |-> PyNone]

Slugs ==
    { ev.slug : ev \in { EV_ELECTION, EV_FED, EV_BARE, EV_GARBLED, EV_WORDS,
                         EV_NO_MARKETS } }

\* the locals of a scan, before it starts
ScanLocalsInit ==
    /\ widgets' = NoWidgets
    /\ page' = 0
    /\ all_items' = << >>
    /\ now' = 0
    /\ gets' = << >>
    /\ got' = NoGet
    /\ api_error' = FALSE

\* the locals of an audit, before it starts
AuditLocalsInit ==
    /\ slug' = ""
    /\ mi' = 0
    /\ ret' = NoReturn
    /\ posts' = << >>
    /\ resp' = NoPost
    /\ audits_before' = EmptyDict

\* lines 19-20: a new session
Init ==
    /\ audits = EmptyDict
    /\ last_results = NoResults
    /\ pc = "idle"
    /\ handler = "none"
    /\ outcome = "none"
    /\ widgets = NoWidgets
    /\ page = 0
    /\ all_items = << >>
    /\ now = 0
    /\ gets = << >>
    /\ got = NoGet
    /\ api_error = FALSE
    /\ slug = ""
    /\ mi = 0
    /\ ret = NoReturn
    /\ posts = << >>
    /\ resp = NoPost
    /\ audits_before = EmptyDict

\* lines 210-212: 'RUN DEEP SCAN' is clicked with the sidebar at one of the
\* values W; fetch_markets_advanced starts
RunDeepScan(W) ==
    /\ pc = "idle"
    /\ \E w \in W : widgets' = w
    /\ pc' = "fetch"
    /\ handler' = "scan"
    /\ outcome' = "running"
    /\ page' = 0
    /\ all_items' = << >>
    /\ now' = 0
    /\ gets' = << >>
    /\ got' = NoGet
    /\ api_error' = FALSE
    /\ AuditLocalsInit
    /\ UNCHANGED <<audits, last_results>>

\* lines 149-192 and 214-230: one page request and the loop body on its
\* response; when the loop ends (break, or the last page) the function
\* returns and the handler finishes in the same step.  R: the responses the
\* endpoint may give.
FetchPage(R) ==
    /\ pc = "fetch"
    /\ \E r \in R, t \in Nows :
          LET out == FetchBody(r, all_items)
              last == out.stop \/ page + 1 >= widgets.scan_depth
              end == ScanEnd(out.items, widgets, t, last_results)
          IN  /\ gets' = Append(gets, PageRequest(page, widgets.selected_tag_id))
              /\ got' = r
              /\ all_items' = out.items
              /\ api_error' = (api_error \/ out.error)
              /\ page' = page + 1
              /\ IF last
                 THEN /\ pc' = "idle"
                      /\ outcome' = end.outcome
                      /\ last_results' = end.last_results
                      /\ now' = end.now
                 ELSE /\ pc' = "fetch"
                      /\ UNCHANGED <<outcome, last_results, now>>
    /\ UNCHANGED <<audits, handler, widgets, slug, mi, ret, posts, resp,
                   audits_before>>

\* lines 272-275: the 'Audit Risk' button of slug s is clicked;
\* analyze_risk_llm starts
AuditRisk(s) ==
    /\ pc = "idle"
    /\ s \in Buttons(last_results, audits)
    /\ pc' = "audit"
    /\ handler' = "audit"
    /\ outcome' = "running"
    /\ slug' = s
    /\ mi' = 1
    /\ ret' = NoReturn
    /\ posts' = << >>
    /\ resp' = NoPost
    /\ audits_before' = audits
    /\ ScanLocalsInit
    /\ UNCHANGED <<audits, last_results>>

AuditRiskClick ==
    \E s \in Slugs : AuditRisk(s)

\* lines 123-127: the request of one iteration of the model loop
ChatRequest(model) ==
    [url |-> OPENROUTER_URL, model |-> model]

\* lines 121-142 and 276: one iteration of the model loop; on a success, or
\* when the list is exhausted, the function returns and st.rerun() follows
AuditAttempt ==
    /\ pc = "audit"
    /\ \E r \in LLMResponses :
          LET out == TryModel(r)
          IN  /\ posts' = Append(posts, ChatRequest(MODEL_FALLBACK_LIST[mi]))
              /\ resp' = r
              /\ IF out.ok
                 THEN /\ audits' = CacheOnSuccess(audits, slug, out.val)
                      /\ ret' = out.val
                      /\ pc' = "idle"
                      /\ outcome' = "returned"
                      /\ mi' = mi
                 ELSE IF NextModel(mi) <= Len(MODEL_FALLBACK_LIST)
                 THEN /\ mi' = NextModel(mi)
                      /\ UNCHANGED <<audits, ret, pc, outcome>>
                 ELSE /\ audits' = CacheOnExhausted(audits, slug)
                      /\ ret' = AI_UNAVAILABLE
                      /\ pc' = "idle"
                      /\ outcome' = "returned"
                      /\ mi' = mi
    /\ UNCHANGED <<last_results, handler, widgets, page, all_items, now, slug,
                   gets, got, audits_before, api_error>>

\* The session with every answer of the chat endpoint, and the scans that
\* lead to it: the default sidebar but for min_volume, and four answers of
\* the events endpoint.
SessionWidgets ==
    { w \in Widgets : w.days_left_max = 500 /\ w.selected_tag_id = NoTag }

SessionResponses ==
    { G_CONNECTION_ERROR, G_EMPTY, G_ELECTION, G_FED }

SessionScan ==
    RunDeepScan(SessionWidgets)

SessionFetch ==
    FetchPage(SessionResponses)

Next ==
    \/ SessionScan
    \/ SessionFetch
    \/ AuditRiskClick
    \/ AuditAttempt

Spec ==
    Init /\ [][Next]_vars

\* The scans alone, with every sidebar value and every answer of the events
\* endpoint.
AnyScan ==
    RunDeepScan(Widgets)

AnyFetch ==
    FetchPage(PageResponses)

NextScan ==
    \/ AnyScan
    \/ AnyFetch

SpecScan ==
    Init /\ [][NextScan]_vars

-----------------------------------------------------------------------------
(* Properties.  The answers of the two endpoints are classified here by    *)
(* what they are, independently of the operators that process them.        *)

\* the answers of the chat endpoint that are no success: an exception, a
\* non-200 status, a 200 without a message, a 200 whose content is no JSON
FailingResponses ==
    { R_TIMEOUT, R_RATE_LIMITED, R_NO_CHOICES, R_PROSE }

\* the 200 answers whose content is one JSON document, bare or fenced, with
\* the value that document denotes
AnswerOf ==
    (R_SAFE :> JsonTable[J_SAFE])
    @@ (R_RISKY_FENCED :> JsonTable[J_RISKY])
    @@ (R_SAFE_QUOTED :> JsonTable[J_SAFE])
    @@ (R_MAYBE :> JsonTable[J_MAYBE])
    @@ (R_EMPTY_OBJECT :> JsonTable[J_EMPTY])
    @@ (R_LIST :> JsonTable[J_LIST])
    @@ (R_NULL :> JsonTable[J_NULL])

\* an audit call has contacted every model of the list and the last one failed
Exhausted ==
    /\ handler = "audit"
    /\ Len(posts) = Len(MODEL_FALLBACK_LIST)
    /\ resp \in FailingResponses

\* C2: when every model of the list fails (non-200, exception, unparseable
\* content), analyze_risk_llm returns exactly the ERROR sentinel
\* {risk_score: 0, verdict: "ERROR", reasoning: "AI unavailable."} and the
\* audit cache is as it was when the call started.  (The loop goes on only
\* after a failure, see C3, so the last of all the models failing means that
\* every one of them failed.)
C2_ExhaustedReturnsSentinel ==
    Exhausted =>
        /\ pc = "idle"
        /\ ret = PyDict({"risk_score", "verdict", "reasoning"}, 0, "ERROR",
                        "AI unavailable.")
        /\ audits = audits_before

\* C2's case: a slug whose cached audit is falsy is audited again, every
\* model fails, and the call has returned
C2_Witness ==
    /\ Exhausted
    /\ pc = "idle"
    /\ slug \in DOMAIN audits_before
    /\ posts[1].model = "qwen/qwen3-coder:free"

\* C3: the models are contacted in the order of MODEL_FALLBACK_LIST, one
\* request each; the loop goes on to the next model only after a failure; at
\* the first 200 answer with parseable content the call returns the parsed
\* value, which is then the cache entry of the slug, and no later model is
\* contacted; the call ends without a success only when the list is exhausted.
C3_FirstSuccessInListOrder ==
    /\ Len(posts) <= Len(MODEL_FALLBACK_LIST)
    /\ \A i \in DOMAIN posts :
          /\ posts[i].model = MODEL_FALLBACK_LIST[i]
          /\ posts[i].url = OPENROUTER_URL
    /\ (pc = "audit" /\ posts # << >>) => resp \in FailingResponses
    /\ (pc = "audit") => (ret = NoReturn /\ mi = Len(posts) + 1)
    /\ (handler = "audit" /\ pc = "idle" /\ resp \in DOMAIN AnswerOf) =>
          /\ ret = AnswerOf[resp]
          /\ slug \in DOMAIN audits
          /\ audits[slug] = AnswerOf[resp]
    /\ (handler = "audit" /\ pc = "idle" /\ resp \in FailingResponses) =>
          Len(posts) = Len(MODEL_FALLBACK_LIST)

\* C3's case: the first model failed, the second answered with a fenced JSON
\* document, the call returned it and the third model was not contacted
C3_Witness ==
    /\ handler = "audit"
    /\ pc = "idle"
    /\ Len(posts) = 2
    /\ resp = R_RISKY_FENCED
    /\ ret.verdict = "RISKY"
    /\ audits[slug] = ret

\* the answers of the events endpoint after which the loop must stop: a
\* non-success status, an empty payload
StopResponses ==
    { G_SERVER_ERROR, G_EMPTY }

\* C4: the page requests are issued for page 0, 1, ... with offset page * 50,
\* at most scan_depth of them, and none after a request that returned a
\* non-success status or an empty payload; an empty array on page 0 gives zero
\* records after exactly one request.
C4_SequentialPagesStopEarly ==
    /\ \A i \in DOMAIN gets :
          /\ gets[i].offset = (i - 1) * 50
          /\ gets[i].limit = 50
          /\ gets[i].url = POLY_URL
    /\ handler = "scan" => Len(gets) <= widgets.scan_depth
    /\ (pc = "fetch") => (page = Len(gets) /\ page < widgets.scan_depth)
    /\ (gets # << >> /\ got \in StopResponses) => pc = "idle"
    /\ (Len(gets) = 1 /\ got = G_EMPTY) => (pc = "idle" /\ all_items = << >>)

\* C4's case: a scan of two or more pages whose page 0 came back empty
\* returned no record after that one request
C4_Witness ==
    /\ handler = "scan"
    /\ pc = "idle"
    /\ widgets.scan_depth >= 2
    /\ Len(gets) = 1
    /\ gets[1].offset = 0
    /\ got = G_EMPTY
    /\ all_items = << >>

\* the answers of the events endpoint on which the request raises: the
\* connection fails, or the body of a success is no JSON
RaisingResponses ==
    { G_CONNECTION_ERROR, G_NOT_JSON }

\* C5: when the request of page k raises, the fetch makes no further request
\* and returns the records accumulated from pages 0..k-1: the error is shown,
\* not raised, and the handler goes on with the partial result (which it
\* saves when its date math succeeds).
C5_RequestErrorKeepsPartial ==
    [][ (pc = "fetch" /\ Len(gets') = Len(gets) + 1
            /\ got' \in RaisingResponses)
        => /\ pc' = "idle"
           /\ all_items' = all_items
           /\ api_error'
           /\ outcome' # "running"
           /\ (outcome' = "saved") =
                  (all_items # << >> /\ \E i \in DOMAIN all_items :
                                            all_items[i].EndDate.known) ]_vars

\* C5's case: the second page request raised and the records of the first
\* page were returned and saved
C5_Witness ==
    /\ handler = "scan"
    /\ pc = "idle"
    /\ Len(gets) = 2
    /\ got = G_CONNECTION_ERROR
    /\ all_items # << >>
    /\ outcome = "saved"
    /\ last_results.rows # << >>

\* the record of a fetched market, as the scan result holds it
InScanResult(record) ==
    \E j \in DOMAIN last_results.rows :
        \A k \in DOMAIN record : last_results.rows[j][k] = record[k]

\* 0 < daysLeft <= maxDaysLeft and volume >= minVolume (daysLeft undefined
\* when the market has no end date)
Qualifies(record) ==
    /\ record.EndDate.known
    /\ 0 < record.EndDate.t - now
    /\ record.EndDate.t - now <= widgets.days_left_max
    /\ record.Volume >= widgets.min_volume

\* C9: after a scan, a fetched record is in the scan result if and only if
\* 0 < daysLeft <= maxDaysLeft and volume >= minVolume, both bounds inclusive.
C9_FilterIsInclusive ==
    (handler = "scan" /\ pc = "idle") =>
        \A i \in DOMAIN all_items :
            InScanResult(all_items[i]) <=> Qualifies(all_items[i])

\* C9's case: minVolume 10000 and maxDaysLeft 5.0; a record of volume 9999 and
\* 3 days is left out, one of volume 10000 and exactly 5.0 days is in, one
\* with -1 day is left out
C9_Witness ==
    /\ handler = "scan"
    /\ pc = "idle"
    /\ outcome = "saved"
    /\ widgets.min_volume = 10000
    /\ widgets.days_left_max = 500
    /\ \E i \in DOMAIN all_items :
          /\ all_items[i].Volume = 9999
          /\ all_items[i].EndDate.t - now = 300
          /\ ~InScanResult(all_items[i])
    /\ \E i \in DOMAIN all_items :
          /\ all_items[i].Volume = 10000
          /\ all_items[i].EndDate.t - now = 500
          /\ InScanResult(all_items[i])
    /\ \E i \in DOMAIN all_items :
          /\ all_items[i].EndDate.known
          /\ all_items[i].EndDate.t - now = -100
          /\ all_items[i].Volume >= 10000
          /\ ~InScanResult(all_items[i])

\* C1 (as claimed): once the audit cache holds an entry for a slug, whatever
\* its value, no audit request is issued for that slug any more and the entry
\* keeps its value.
C1_CachedSlugIsNeverAuditedAgain ==
    [][ \A s \in DOMAIN audits :
            /\ s \in DOMAIN audits'
            /\ audits'[s] = audits[s]
            /\ ~(slug' = s /\ Len(posts') = Len(posts) + 1) ]_vars

\* the markets of a page, event by event, each with its event
RECURSIVE MarketsOf(_, _)
MarketsOf(data, i) ==
    IF i > Len(data) THEN << >>
    ELSE (IF data[i].has_markets
          THEN [k \in DOMAIN data[i].markets |->
                   [event |-> data[i], market |-> data[i].markets[k]]]
          ELSE << >>)
         \o MarketsOf(data, i + 1)

\* outcomePrices is a string that is no JSON
HasUnparseablePrices(m) ==
    /\ "outcomePrices" \in m.has
    /\ m.outcomePrices.is_str
    /\ m.outcomePrices.text = P_GARBAGE

\* C6 (as claimed): a page with a malformed market is flattened like any
\* other: every market of the page gets its record, in order, the record of
\* a market whose outcomePrices does not parse has PriceSum = 0, the record
\* of a market without volume has Volume = 0, and the remaining pages are
\* requested.
C6_MalformedMarketIsNotFatal ==
    [][ (pc = "fetch" /\ Len(gets') = Len(gets) + 1
            /\ got'.ok /\ got'.has_json /\ got'.data # << >>)
        => LET ms == MarketsOf(got'.data, 1)
           IN  /\ Len(all_items') = Len(all_items) + Len(ms)
               /\ \A k \in DOMAIN ms :
                     LET rec == all_items'[Len(all_items) + k]
                     IN  /\ rec.Question = ms[k].market.question
                         /\ rec.Slug = ms[k].event.slug
                         /\ HasUnparseablePrices(ms[k].market)
                                => rec.PriceSum = 0
                         /\ "volume" \notin ms[k].market.has
                                => rec.Volume = 0
               /\ page' < widgets.scan_depth => pc' = "fetch" ]_vars

NoTwoRowsShareASlug(rows) ==
    \A i, j \in DOMAIN rows : rows[i].Slug = rows[j].Slug => i = j

\* C7 (as claimed): within one scan no two records, fetched or filtered,
\* carry the same Slug.
C7_SlugIsUniqueInScan ==
    /\ NoTwoRowsShareASlug(all_items)
    /\ NoTwoRowsShareASlug(last_results.rows)

\* C8 (as claimed): after every scan that ran to its end, one whose fetch
\* returned no record included, the stored result set is exactly the filtered
\* and ranked output of that scan.  (A scan whose date math raised is left
\* aside.)
C8_ResultsAreRebuiltByEveryScan ==
    (handler = "scan" /\ pc = "idle" /\ outcome # "exception") =>
        last_results.rows = FilterAndRank(all_items, widgets, now)

\* a well-formed AuditResult
WellFormedAudit(v) ==
    /\ v.type = "dict"
    /\ {"risk_score", "verdict", "reasoning"} \subseteq v.keys
    /\ v.risk_score \in 0 .. 10
    /\ v.verdict \in {"SAFE", "RISKY", "ERROR"}

\* C10 (as claimed): every entry of the audit cache is a well-formed
\* AuditResult.
C10_CacheHoldsWellFormedAudits ==
    \A s \in DOMAIN audits : WellFormedAudit(audits[s])

====
